---- MODULE Spec2Model ----
(***************************************************************************)
(* Model of encrypt-util (src/encrypt.c): a stream is cut into blocks of   *)
(* the key's length, each block is XORed with the key rotated left by the  *)
(* block's index, either by the main thread alone (sequential mode) or by  *)
(* a pool of worker threads fed through two linked-list queues (parallel   *)
(* mode).                                                                  *)
(***************************************************************************)
EXTENDS Integers, Sequences, FiniteSets, TLC

(***************************************************************************)
(* Bounds of the model.                                                    *)
(***************************************************************************)
MaxThreads == 3      \* pool widths 0..MaxThreads (0 = sequential mode)
MaxInputLen == 3     \* input streams of 0..MaxInputLen bytes
MaxKeyLen == 2       \* short keys of 1..MaxKeyLen bytes
MaxShift == 17       \* rotation shifts 0..MaxShift on the short keys
MaxStale == 1        \* revisits of a freed block the drain loop may survive

(***************************************************************************)
(* Program constants.                                                      *)
(***************************************************************************)
UCharMod == 256      \* unsigned char arithmetic is modulo 256
ByteBits == 8        \* bits of a key byte
NULL == -1           \* the null pointer; blocks are named by naturals

\* all sequences over S of length lo..hi
SeqsOf(S, lo, hi) == UNION {[1..n -> S] : n \in lo..hi}

\* The pipeline runs on one key per key length and one input stream per input
\* length: which thread does what when depends on the number of blocks only.
\* The bytes are chosen so that no two blocks and no two rotations of a key
\* are equal.
KeyOf(L) == [i \in 1..L |-> IF i = 1 THEN 1 ELSE 128]
InputOf(n) == [i \in 1..n |-> (i * 37) % 256]

Keys == {KeyOf(L) : L \in 1..MaxKeyLen}
Inputs == {InputOf(n) : n \in 0..MaxInputLen}

Min(a, b) == IF a < b THEN a ELSE b

IsPrefix(s, t) == Len(s) <= Len(t) /\ SubSeq(t, 1, Len(s)) = s

(***************************************************************************)
(* Pure functions of encrypt.c.  C arrays are 0-based, sequences 1-based:  *)
(* key[i] of the source is key[i+1] here.                                  *)
(***************************************************************************)

\* a ^ b on n-bit values
RECURSIVE XorBits(_, _, _)
XorBits(a, b, n) ==
    IF n = 0 THEN 0
    ELSE (((a % 2) + (b % 2)) % 2) + (2 * XorBits(a \div 2, b \div 2, n - 1))

Xor(a, b) == XorBits(a, b, ByteBits)

\* (x & 0x80) != 0 as 0 or 1
TopBit(x) == (x \div 128) % 2

\* one pass of the outer loop of encrypt_rotate_key_bits: every byte is
\* shifted left by one and takes the top bit of its right neighbour, which
\* the loop has not yet touched; the last byte takes the saved carry.
\* (v is k, evaluated once.)
RotateBitsOnce(k) ==
    CHOOSE r \in
        {[i \in 1..Len(v) |->
             ((v[i] * 2) % UCharMod)
               + (IF i < Len(v) THEN TopBit(v[i + 1]) ELSE TopBit(v[1]))] :
         v \in {k}} : TRUE

\* A rotation that never returns is the empty sequence (keys are non-empty).
Hang == <<>>

RECURSIVE encrypt_rotate_key_bits(_, _, _)
encrypt_rotate_key_bits(k, keylength, shift) ==
    IF k = Hang \/ shift = 0 THEN k
    ELSE encrypt_rotate_key_bits(RotateBitsOnce(k), keylength, shift - 1)

RECURSIVE compute_gcd(_, _)
compute_gcd(a, b) == IF b = 0 THEN a ELSE compute_gcd(b, a % b)

\* `next = pos + shift' with next an unsigned char, then the wrap at keylength
byte_next(pos, shift, keylength) ==
    LET n == (pos + shift) % UCharMod
    IN  IF n >= keylength THEN n - keylength ELSE n

\* One turn of the while(1) loop of encrypt_rotate_key_bytes for the cycle
\* that starts at idx: lines 62-71.  st.done: the loop has met its break.
cycle_step(st, keylength, shift, idx) ==
    LET next == byte_next(st.pos, shift, keylength)
    IN  IF st.done THEN st
        ELSE IF next = idx THEN [st EXCEPT !.done = TRUE]
        ELSE [k |-> [st.k EXCEPT ![st.pos + 1] = st.k[next + 1]],
              pos |-> next, done |-> FALSE]

\* n turns of the loop (halving n keeps the evaluation shallow)
RECURSIVE cycle_steps(_, _, _, _, _)
cycle_steps(st, keylength, shift, idx, n) ==
    IF st.done \/ n = 0 THEN st
    ELSE IF n = 1 THEN cycle_step(st, keylength, shift, idx)
    ELSE cycle_steps(cycle_steps(st, keylength, shift, idx, n \div 2),
                     keylength, shift, idx, n - (n \div 2))

\* Lines 57-74 for the cycle that starts at idx.  pos only takes values below
\* keylength and, after the first turn, below UCharMod: a loop that has not
\* met its break after one turn more than there are such values never will.
rotate_cycle(k, keylength, shift, idx) ==
    LET st == cycle_steps([k |-> k, pos |-> idx, done |-> FALSE],
                          keylength, shift, idx,
                          Min(keylength, UCharMod) + 1)
    IN  IF st.done THEN [st.k EXCEPT ![st.pos + 1] = k[idx + 1]] ELSE Hang

\* The for loop of line 55 over the cycles from..to-1.
RECURSIVE rotate_cycles(_, _, _, _, _)
rotate_cycles(k, keylength, shift, from, to) ==
    IF k = Hang \/ from >= to THEN k
    ELSE IF to - from = 1 THEN rotate_cycle(k, keylength, shift, from)
    ELSE LET mid == from + ((to - from) \div 2)
         IN  rotate_cycles(rotate_cycles(k, keylength, shift, from, mid),
                           keylength, shift, mid, to)

\* shift arrives through an unsigned char parameter
encrypt_rotate_key_bytes(k, keylength, shift) ==
    LET s == shift % UCharMod
    IN  rotate_cycles(k, keylength, s, 0, compute_gcd(s, keylength))

encrypt_rotate_key(k, keylength, shift) ==
    LET s == shift % (keylength * 8)
        k1 == IF s \div 8 # 0
              THEN encrypt_rotate_key_bytes(k, keylength, s \div 8)
              ELSE k
    IN  IF s % 8 # 0
        THEN encrypt_rotate_key_bits(k1, keylength, s % 8)
        ELSE k1

\* block[j] ^= key[j] for the length valid bytes of the block
encrypt_block(block, length, k) ==
    CHOOSE r \in
        {[j \in 1..Len(b) |->
             IF j <= length THEN Xor(b[j], v[j]) ELSE b[j]] :
         b \in {block}, v \in {k}} : TRUE

(***************************************************************************)
(* State.                                                                  *)
(***************************************************************************)
VARIABLES
    key,              \* the key buffer encrypt() loaded (context->key)
    key0,             \* the bytes of the key file
    input,            \* what is left to read from stdin
    input0,           \* the whole input stream of this run
    plain,            \* the input stream of the first run
    out,              \* the bytes written to stdout
    threadcount,      \* -n: 0 selects the sequential mode
    cpc,              \* where the main thread is
    index,            \* index of encrypt_execute_parallel / _sequential
    slot,             \* slot of encrypt_execute_parallel
    cquit,            \* the local quit flag of encrypt_execute_parallel
    cindex,           \* index of encrypt_context_init / _deinit loops
    current,          \* current of the drain loop
    retval,           \* retval of encrypt()
    errout,           \* number of diagnostics written to stderr
    exitstatus,       \* exit status of the process, NULL while it runs
    quit,             \* context->quit
    lock,             \* context->queuelock: "free", or held by "main" or a "worker"
    process_queue,    \* context->process_queue (head pointer)
    completion_queue, \* context->completion_queue (head pointer)
    process_event,    \* count of the semaphore context->process_event
    completion_event, \* count of the semaphore context->completion_event
    ctx_threadcount,  \* context->threadcount
    heap,             \* the encrypt_block_info_t objects, by block name
    freed,            \* the blocks already passed to encrypt_block_deinit
    wpc,              \* where each worker is
    winfo,            \* info of each worker
    wcur,             \* current of each worker's insertion loop
    wkey,             \* the private key buffer of each worker
    pops,             \* history: how often each block was popped
    written,          \* history: the block indices written to stdout
    batches,          \* history: the number of blocks submitted per round
    stale,            \* history: visits of the drain loop to freed blocks
    pass,             \* 1, or 2 when the program runs again on its own output
    fault,            \* the setup step the environment makes fail
    rot               \* a run of the rotation functions on their own

vars == <<key, key0, input, input0, plain, out, threadcount, cpc, index, slot, cquit,
          cindex, current, retval, errout, exitstatus, quit, lock,
          process_queue, completion_queue, process_event, completion_event,
          ctx_threadcount, heap, freed, wpc, winfo, wcur, wkey, pops, written,
          batches, stale, pass, fault, rot>>

\* the variables of the worker pool and its queues
poolvars == <<quit, lock, process_queue, completion_queue, process_event,
              completion_event, ctx_threadcount, heap, freed, wpc, winfo,
              wcur, wkey, pops>>

\* the variables of the main thread
mainvars == <<key, input, out, cpc, index, slot, cquit, cindex, current,
              retval, errout, exitstatus, written, batches, stale>>

\* the variables no step of one run changes
runvars == <<key0, input0, plain, threadcount, pass, fault, rot>>

Workers == 1..threadcount

\* The setup steps that can fail, by the line of the verify that sees it:
\* in encrypt(), lines 426-434
KeyFaults == {"keyname", "fopen", "fseek", "empty", "keymalloc", "keyread"}
\* in encrypt_context_init, lines 238-243
InitFaults == {"mutex", "sem", "threads"}
\* and "create": pthread_create number at fails (line 250); "block":
\* encrypt_block_init of block number at fails (lines 334, 394)
NoFault == [kind |-> "none", at |-> 0]
RotIdle == [pc |-> "idle"]

\* main() has parsed -k and -n and calls encrypt(); memset has zeroed context
Boot(k, in, n, f, c, r) ==
    /\ key = k /\ key0 = k
    /\ input = in /\ input0 = in /\ plain = in
    /\ out = <<>>
    /\ threadcount = n
    /\ cpc = c
    /\ index = 0 /\ slot = 0 /\ cquit = FALSE /\ cindex = 0
    /\ current = NULL
    /\ retval = 0 /\ errout = 0 /\ exitstatus = NULL
    /\ quit = FALSE
    /\ lock = "free"
    /\ process_queue = NULL /\ completion_queue = NULL
    /\ process_event = 0 /\ completion_event = 0
    /\ ctx_threadcount = 0
    /\ heap = [b \in {} |-> NULL]
    /\ freed = {}
    /\ wpc = [w \in 1..n |-> "none"]
    /\ winfo = [w \in 1..n |-> NULL]
    /\ wcur = [w \in 1..n |-> NULL]
    /\ wkey = [w \in 1..n |-> <<>>]
    /\ pops = [b \in {} |-> 0]
    /\ written = <<>>
    /\ batches = <<>>
    /\ stale = 0
    /\ pass = 1
    /\ fault = f
    /\ rot = r

Init ==
    \E k \in Keys, in \in Inputs, n \in 0..MaxThreads :
        Boot(k, in, n, NoFault, "encrypt", RotIdle)

keylength == Len(key0)

(***************************************************************************)
(* encrypt_thread: one action per step of a worker between two points at   *)
(* which another thread can observe or change what it uses.                *)
(***************************************************************************)

\* line 129, then line 131: the private key buffer is allocated, and every
\* turn of the loop starts with while( !context->quit ); pthread_exit when
\* the test fails
thread_loop(w) ==
    /\ wpc[w] = "loop"
    /\ wpc' = [wpc EXCEPT ![w] = IF quit THEN "exited" ELSE "wait"]
    /\ winfo' = [winfo EXCEPT ![w] = NULL]
    /\ UNCHANGED <<quit, lock, process_queue, completion_queue, process_event,
                   completion_event, ctx_threadcount, heap, freed, wcur, wkey,
                   pops>>
    /\ UNCHANGED mainvars /\ UNCHANGED runvars

\* thread_wait with the count of process_event left as it is (the wait
\* returns without taking the signal)
thread_wait_keeps_count(w) ==
    /\ wpc[w] = "wait"
    /\ process_event > 0
    /\ wpc' = [wpc EXCEPT ![w] = "checkquit"]
    /\ UNCHANGED <<quit, lock, process_queue, completion_queue, process_event,
                   completion_event, ctx_threadcount, heap, freed, winfo,
                   wcur, wkey, pops>>
    /\ UNCHANGED mainvars /\ UNCHANGED runvars

\* line 135: sem_wait(&context->process_event) returns
thread_wait(w) ==
    /\ wpc[w] = "wait"
    /\ process_event > 0
    /\ process_event' = process_event - 1
    /\ wpc' = [wpc EXCEPT ![w] = "checkquit"]
    /\ UNCHANGED <<quit, lock, process_queue, completion_queue,
                   completion_event, ctx_threadcount, heap, freed, winfo,
                   wcur, wkey, pops>>
    /\ UNCHANGED mainvars /\ UNCHANGED runvars

\* lines 138-139: if( context->quit ) break
thread_checkquit(w) ==
    /\ wpc[w] = "checkquit"
    /\ wpc' = [wpc EXCEPT ![w] = IF quit THEN "exited" ELSE "pop"]
    /\ UNCHANGED <<quit, lock, process_queue, completion_queue, process_event,
                   completion_event, ctx_threadcount, heap, freed, winfo,
                   wcur, wkey, pops>>
    /\ UNCHANGED mainvars /\ UNCHANGED runvars

\* thread_pop with the rotation done in context->key itself (the memcpy of
\* line 154 lost, line 155 on context->key)
thread_pop_rotates_shared(w) ==
    /\ wpc[w] = "pop"
    /\ lock = "free"
    /\ IF process_queue # NULL
       THEN LET info == process_queue
                k == encrypt_rotate_key(key, keylength, heap[info].index)
            IN  /\ winfo' = [winfo EXCEPT ![w] = info]
                /\ process_queue' = heap[info].next
                /\ pops' = [pops EXCEPT ![info] = @ + 1]
                /\ key' = k
                /\ wkey' = [wkey EXCEPT ![w] = k]
                /\ heap' = [heap EXCEPT ![info].block =
                              encrypt_block(@, heap[info].length, k)]
                /\ wpc' = [wpc EXCEPT ![w] = "insert"]
       ELSE /\ wpc' = [wpc EXCEPT ![w] = "loop"]
            /\ UNCHANGED <<key, winfo, process_queue, pops, heap, wkey>>
    /\ UNCHANGED <<quit, lock, completion_queue, process_event,
                   completion_event, ctx_threadcount, freed, wcur>>
    /\ UNCHANGED <<input, out, cpc, index, slot, cquit, cindex, current,
                   retval, errout, exitstatus, written, batches, stale>>
    /\ UNCHANGED runvars

\* thread_pop with the head of process_queue left in place (line 146 lost)
thread_pop_keeps_head(w) ==
    /\ wpc[w] = "pop"
    /\ lock = "free"
    /\ IF process_queue # NULL
       THEN LET info == process_queue
                k == encrypt_rotate_key(key, keylength, heap[info].index)
            IN  /\ winfo' = [winfo EXCEPT ![w] = info]
                /\ pops' = [pops EXCEPT ![info] = @ + 1]
                /\ wkey' = [wkey EXCEPT ![w] = k]
                /\ heap' = [heap EXCEPT ![info].block =
                              encrypt_block(@, heap[info].length, k)]
                /\ wpc' = [wpc EXCEPT ![w] = "insert"]
       ELSE /\ wpc' = [wpc EXCEPT ![w] = "loop"]
            /\ UNCHANGED <<winfo, pops, heap, wkey>>
    /\ UNCHANGED <<quit, lock, process_queue, completion_queue, process_event,
                   completion_event, ctx_threadcount, freed, wcur>>
    /\ UNCHANGED mainvars /\ UNCHANGED runvars

\* lines 141-160: under the lock, take the head of process_queue; then, on
\* the block no other thread can reach now, copy the shared key, rotate the
\* copy by the block's index and XOR the block with it.  A rotation that does
\* not return keeps the worker in encrypt_rotate_key.
thread_pop(w) ==
    /\ wpc[w] = "pop"
    /\ lock = "free"
    /\ IF process_queue # NULL
       THEN LET info == process_queue
                k == encrypt_rotate_key(key, keylength, heap[info].index)
            IN  /\ winfo' = [winfo EXCEPT ![w] = info]
                /\ process_queue' = heap[info].next
                /\ pops' = [pops EXCEPT ![info] = @ + 1]
                /\ IF k = Hang
                   THEN /\ wpc' = [wpc EXCEPT ![w] = "rotating"]
                        /\ UNCHANGED <<heap, wkey>>
                   ELSE /\ wkey' = [wkey EXCEPT ![w] = k]
                        /\ heap' = [heap EXCEPT ![info].block =
                                      encrypt_block(@, heap[info].length, k)]
                        /\ wpc' = [wpc EXCEPT ![w] = "insert"]
       ELSE /\ wpc' = [wpc EXCEPT ![w] = "loop"]
            /\ UNCHANGED <<winfo, process_queue, pops, heap, wkey>>
    /\ UNCHANGED <<quit, lock, completion_queue, process_event,
                   completion_event, ctx_threadcount, freed, wcur>>
    /\ UNCHANGED mainvars /\ UNCHANGED runvars

\* The for loop of lines 164-172 from (current, previous): where it stops, or
\* that it never stops.  A walk over live blocks that has made more steps than
\* there are blocks is in a cycle whose indices are all <= idx.
RECURSIVE insert_walk(_, _, _, _, _)
insert_walk(h, idx, cur, previous, fuel) ==
    IF cur = NULL \/ fuel = 0
    THEN [current |-> cur, previous |-> previous, spins |-> cur # NULL]
    ELSE IF idx < h[cur].index
    THEN [current |-> cur, previous |-> previous, spins |-> FALSE]
    ELSE insert_walk(h, idx, h[cur].next, cur, fuel - 1)

\* lines 162-180: under the lock, link the block into completion_queue
thread_insert(w) ==
    /\ wpc[w] = "insert"
    /\ lock = "free"
    /\ LET info == winfo[w]
           r == insert_walk(heap, heap[info].index, completion_queue,
                            completion_queue, Cardinality(DOMAIN heap))
       IN  IF r.spins
           THEN /\ lock' = "worker"
                /\ wcur' = [wcur EXCEPT ![w] = r.current]
                /\ wpc' = [wpc EXCEPT ![w] = "walk"]
                /\ UNCHANGED <<completion_queue, heap>>
           ELSE /\ completion_queue' =
                       IF completion_queue = NULL THEN info
                       ELSE completion_queue
                /\ heap' = IF completion_queue = NULL
                           THEN [heap EXCEPT ![info].next = r.current]
                           ELSE [heap EXCEPT ![r.previous].next = info,
                                             ![info].next = r.current]
                /\ wpc' = [wpc EXCEPT ![w] = "post"]
                /\ UNCHANGED <<lock, wcur>>
    /\ UNCHANGED <<quit, process_queue, process_event, completion_event,
                   ctx_threadcount, freed, winfo, wkey, pops>>
    /\ UNCHANGED mainvars /\ UNCHANGED runvars

\* lines 164-172 on a cyclic completion_queue: the loop goes round, the lock held
thread_walk(w) ==
    /\ wpc[w] = "walk"
    /\ wcur' = [wcur EXCEPT ![w] = heap[wcur[w]].next]
    /\ UNCHANGED <<quit, lock, process_queue, completion_queue, process_event,
                   completion_event, ctx_threadcount, heap, freed, wpc, winfo,
                   wkey, pops>>
    /\ UNCHANGED mainvars /\ UNCHANGED runvars

\* line 182: sem_post(&context->completion_event), and back to the loop test
thread_post(w) ==
    /\ wpc[w] = "post"
    /\ completion_event' = completion_event + 1
    /\ wpc' = [wpc EXCEPT ![w] = "loop"]
    /\ UNCHANGED <<quit, lock, process_queue, completion_queue, process_event,
                   ctx_threadcount, heap, freed, winfo, wcur, wkey, pops>>
    /\ UNCHANGED mainvars /\ UNCHANGED runvars

encrypt_thread ==
    \/ \E w \in Workers : thread_loop(w)
    \/ \E w \in Workers : thread_wait(w)
    \/ \E w \in Workers : thread_checkquit(w)
    \/ \E w \in Workers : thread_pop(w)
    \/ \E w \in Workers : thread_insert(w)
    \/ \E w \in Workers : thread_walk(w)
    \/ \E w \in Workers : thread_post(w)

(***************************************************************************)
(* The main thread: encrypt(), encrypt_context_init, the rounds of         *)
(* encrypt_execute_parallel, encrypt_context_deinit, and the loop of       *)
(* encrypt_execute_sequential.                                             *)
(***************************************************************************)

\* a block as encrypt_block_init and fread leave it
NewBlock(idx, data) ==
    [index |-> idx, length |-> Len(data), block |-> data, next |-> NULL]

\* fread(info->block, 1, keylength, stdin) on a stream: the next keylength
\* bytes, or all that is left
fread(in) == SubSeq(in, 1, Min(keylength, Len(in)))

\* the last block of the list that starts at b (lines 349-352)
RECURSIVE queue_tail(_, _)
queue_tail(h, b) == IF h[b].next = NULL THEN b ELSE queue_tail(h, h[b].next)

\* encrypt, lines 426-443: the key is loaded, the mode is chosen
encrypt_load ==
    /\ cpc = "encrypt"
    /\ fault.kind \notin KeyFaults
    /\ cpc' = IF threadcount = 0 THEN "seq_init" ELSE "ctx_init"
    /\ UNCHANGED <<key, input, out, index, slot, cquit, cindex, current,
                   retval, errout, exitstatus, written, batches, stale>>
    /\ UNCHANGED poolvars /\ UNCHANGED runvars

\* encrypt_context_init, lines 235-246: lock, semaphores, thread array
context_init ==
    /\ cpc = "ctx_init"
    /\ fault.kind \notin InitFaults
    /\ process_event' = 0
    /\ completion_event' = 0
    /\ ctx_threadcount' = threadcount
    /\ cindex' = 0
    /\ cpc' = "create"
    /\ UNCHANGED <<key, input, out, index, slot, cquit, current, retval,
                   errout, exitstatus, written, batches, stale>>
    /\ UNCHANGED <<quit, lock, process_queue, completion_queue, heap, freed,
                   wpc, winfo, wcur, wkey, pops>>
    /\ UNCHANGED runvars

\* encrypt_context_init, lines 248-254: one pthread_create that succeeds
context_create ==
    /\ cpc = "create"
    /\ ~(fault.kind = "create" /\ fault.at = cindex)
    /\ wpc' = [wpc EXCEPT ![cindex + 1] = "loop"]
    /\ cindex' = cindex + 1
    /\ cpc' = IF cindex + 1 < ctx_threadcount THEN "create" ELSE "read"
    /\ UNCHANGED <<key, input, out, index, slot, cquit, current, retval,
                   errout, exitstatus, written, batches, stale>>
    /\ UNCHANGED <<quit, lock, process_queue, completion_queue, process_event,
                   completion_event, ctx_threadcount, heap, freed, winfo,
                   wcur, wkey, pops>>
    /\ UNCHANGED runvars

\* parallel_read with a short read taken for the end of the input, as an
\* empty one is (line 336 testing < keylength)
parallel_read_short_ends ==
    /\ cpc = "read"
    /\ ~(fault.kind = "block" /\ fault.at = index)
    /\ LET data == fread(input)
       IN  IF Len(data) < keylength
           THEN /\ cquit' = TRUE
                /\ batches' = Append(batches, slot)
                /\ cpc' = "barrier"
                /\ UNCHANGED <<input, heap, process_queue, pops>>
           ELSE /\ lock = "free"
                /\ input' = SubSeq(input, Len(data) + 1, Len(input))
                /\ heap' =
                     IF process_queue = NULL
                     THEN heap @@ (index :> NewBlock(index, data))
                     ELSE [heap EXCEPT
                             ![queue_tail(heap, process_queue)].next = index]
                          @@ (index :> NewBlock(index, data))
                /\ process_queue' =
                     IF process_queue = NULL THEN index ELSE process_queue
                /\ pops' = pops @@ (index :> 0)
                /\ cpc' = "post"
                /\ UNCHANGED <<cquit, batches>>
    /\ UNCHANGED <<key, out, index, slot, cindex, current, retval, errout,
                   exitstatus, written, stale>>
    /\ UNCHANGED <<quit, lock, completion_queue, process_event,
                   completion_event, ctx_threadcount, freed, wpc, winfo, wcur,
                   wkey>>
    /\ UNCHANGED runvars

\* lines 334-357: a block is made and filled from stdin; an empty read ends
\* the submissions of the round and sets quit, any other read is appended to
\* process_queue under the lock
parallel_read ==
    /\ cpc = "read"
    /\ ~(fault.kind = "block" /\ fault.at = index)
    /\ LET data == fread(input)
       IN  IF Len(data) = 0
           THEN /\ cquit' = TRUE
                /\ batches' = Append(batches, slot)
                /\ cpc' = "barrier"
                /\ UNCHANGED <<input, heap, process_queue, pops>>
           ELSE /\ lock = "free"
                /\ input' = SubSeq(input, Len(data) + 1, Len(input))
                /\ heap' =
                     IF process_queue = NULL
                     THEN heap @@ (index :> NewBlock(index, data))
                     ELSE [heap EXCEPT
                             ![queue_tail(heap, process_queue)].next = index]
                          @@ (index :> NewBlock(index, data))
                /\ process_queue' =
                     IF process_queue = NULL THEN index ELSE process_queue
                /\ pops' = pops @@ (index :> 0)
                /\ cpc' = "post"
                /\ UNCHANGED <<cquit, batches>>
    /\ UNCHANGED <<key, out, index, slot, cindex, current, retval, errout,
                   exitstatus, written, stale>>
    /\ UNCHANGED <<quit, lock, completion_queue, process_event,
                   completion_event, ctx_threadcount, freed, wpc, winfo, wcur,
                   wkey>>
    /\ UNCHANGED runvars

\* line 358 and the step of the for loop of line 332
parallel_post ==
    /\ cpc = "post"
    /\ process_event' = process_event + 1
    /\ index' = index + 1
    /\ slot' = slot + 1
    /\ IF slot + 1 < threadcount
       THEN cpc' = "read" /\ UNCHANGED batches
       ELSE cpc' = "barrier" /\ batches' = Append(batches, slot + 1)
    /\ UNCHANGED <<key, input, out, cquit, cindex, current, retval, errout,
                   exitstatus, written, stale>>
    /\ UNCHANGED <<quit, lock, process_queue, completion_queue,
                   completion_event, ctx_threadcount, heap, freed, wpc, winfo,
                   wcur, wkey, pops>>
    /\ UNCHANGED runvars

\* lines 361-364: one sem_wait(&context.completion_event) of the barrier
parallel_wait ==
    /\ cpc = "barrier"
    /\ slot > 0
    /\ completion_event > 0
    /\ completion_event' = completion_event - 1
    /\ slot' = slot - 1
    /\ UNCHANGED <<key, input, out, cpc, index, cquit, cindex, current,
                   retval, errout, exitstatus, written, batches, stale>>
    /\ UNCHANGED <<quit, lock, process_queue, completion_queue, process_event,
                   ctx_threadcount, heap, freed, wpc, winfo, wcur, wkey, pops>>
    /\ UNCHANGED runvars

\* lines 366-367: the barrier is passed, the lock taken, the drain starts
parallel_drain_begin ==
    /\ cpc = "barrier"
    /\ slot = 0
    /\ lock = "free"
    /\ lock' = "main"
    /\ current' = completion_queue
    /\ cpc' = "drain"
    /\ UNCHANGED <<key, input, out, index, slot, cquit, cindex, retval,
                   errout, exitstatus, written, batches, stale>>
    /\ UNCHANGED <<quit, process_queue, completion_queue, process_event,
                   completion_event, ctx_threadcount, heap, freed, wpc, winfo,
                   wcur, wkey, pops>>
    /\ UNCHANGED runvars

\* lines 369-375: one iteration of the drain loop on a live block
parallel_drain ==
    /\ cpc = "drain"
    /\ current # NULL
    /\ current \notin freed
    /\ out' = out \o SubSeq(heap[current].block, 1, heap[current].length)
    /\ written' = Append(written, heap[current].index)
    /\ freed' = freed \cup {current}
    /\ current' = heap[current].next
    /\ UNCHANGED <<key, input, cpc, index, slot, cquit, cindex, retval,
                   errout, exitstatus, batches, stale>>
    /\ UNCHANGED <<quit, lock, process_queue, completion_queue, process_event,
                   completion_event, ctx_threadcount, heap, wpc, winfo, wcur,
                   wkey, pops>>
    /\ UNCHANGED runvars

\* lines 371-374 on a block that was freed: reading it is undefined.  One
\* outcome: the process is killed (a fault in fwrite, or free() aborting).
parallel_drain_crash ==
    /\ cpc = "drain"
    /\ current # NULL
    /\ current \in freed
    /\ cpc' = "crashed"
    /\ exitstatus' = 134
    /\ UNCHANGED <<key, input, out, index, slot, cquit, cindex, current,
                   retval, errout, written, batches, stale>>
    /\ UNCHANGED poolvars /\ UNCHANGED runvars

\* The other outcome: the freed memory still holds what the block held, and
\* the iteration writes the block again and follows its next pointer.
parallel_drain_stale ==
    /\ cpc = "drain"
    /\ current # NULL
    /\ current \in freed
    /\ stale < MaxStale
    /\ stale' = stale + 1
    /\ out' = out \o SubSeq(heap[current].block, 1, heap[current].length)
    /\ written' = Append(written, heap[current].index)
    /\ current' = heap[current].next
    /\ UNCHANGED <<key, input, cpc, index, slot, cquit, cindex, retval,
                   errout, exitstatus, batches>>
    /\ UNCHANGED poolvars /\ UNCHANGED runvars

\* lines 377-379 and the test of line 330
parallel_drain_end ==
    /\ cpc = "drain"
    /\ current = NULL
    /\ completion_queue' = NULL
    /\ lock' = "free"
    /\ cpc' = IF cquit THEN "deinit" ELSE "read"
    /\ UNCHANGED <<key, input, out, index, slot, cquit, cindex, current,
                   retval, errout, exitstatus, written, batches, stale>>
    /\ UNCHANGED <<quit, process_queue, process_event, completion_event,
                   ctx_threadcount, heap, freed, wpc, winfo, wcur, wkey, pops>>
    /\ UNCHANGED runvars

\* encrypt_context_deinit, line 268
deinit_quit ==
    /\ cpc = "deinit"
    /\ quit' = TRUE
    /\ cindex' = 0
    /\ cpc' = "deinit_post"
    /\ UNCHANGED <<key, input, out, index, slot, cquit, current, retval,
                   errout, exitstatus, written, batches, stale>>
    /\ UNCHANGED <<lock, process_queue, completion_queue, process_event,
                   completion_event, ctx_threadcount, heap, freed, wpc, winfo,
                   wcur, wkey, pops>>
    /\ UNCHANGED runvars

\* encrypt_context_deinit, lines 270-273: one turn of the sem_post loop
deinit_post ==
    /\ cpc = "deinit_post"
    /\ IF cindex < ctx_threadcount
       THEN /\ process_event' = process_event + 1
            /\ cindex' = cindex + 1
            /\ UNCHANGED cpc
       ELSE /\ cindex' = 0
            /\ cpc' = "join"
            /\ UNCHANGED process_event
    /\ UNCHANGED <<key, input, out, index, slot, cquit, current, retval,
                   errout, exitstatus, written, batches, stale>>
    /\ UNCHANGED <<quit, lock, process_queue, completion_queue,
                   completion_event, ctx_threadcount, heap, freed, wpc, winfo,
                   wcur, wkey, pops>>
    /\ UNCHANGED runvars

\* encrypt_context_deinit, lines 275-278: one pthread_join of a thread that
\* was started returns when the thread has exited
deinit_join ==
    /\ cpc = "join"
    /\ IF cindex < ctx_threadcount
       THEN /\ wpc[cindex + 1] = "exited"
            /\ cindex' = cindex + 1
            /\ UNCHANGED cpc
       ELSE /\ cpc' = "free"
            /\ UNCHANGED cindex
    /\ UNCHANGED <<key, input, out, index, slot, cquit, current, retval,
                   errout, exitstatus, written, batches, stale>>
    /\ UNCHANGED poolvars /\ UNCHANGED runvars

\* the blocks the free loops of lines 280-294 reach from b
RECURSIVE queue_blocks(_, _, _)
queue_blocks(h, b, seen) ==
    IF b = NULL \/ b \in seen THEN seen
    ELSE queue_blocks(h, h[b].next, seen \cup {b})

\* whether following next from b comes back to a block already visited
RECURSIVE queue_cyclic(_, _, _)
queue_cyclic(h, b, seen) ==
    IF b = NULL THEN FALSE
    ELSE IF b \in seen THEN TRUE
    ELSE queue_cyclic(h, h[b].next, seen \cup {b})

\* encrypt_context_deinit, lines 280-302, and the return to encrypt()
deinit_free ==
    /\ cpc = "free"
    /\ ~queue_cyclic(heap, completion_queue, {})
    /\ freed' = freed \cup queue_blocks(heap, completion_queue, {})
                      \cup queue_blocks(heap, process_queue, {})
    /\ completion_queue' = NULL
    /\ process_queue' = NULL
    /\ cpc' = "ret"
    /\ UNCHANGED <<key, input, out, index, slot, cquit, cindex, current,
                   retval, errout, exitstatus, written, batches, stale>>
    /\ UNCHANGED <<quit, lock, process_event, completion_event,
                   ctx_threadcount, heap, wpc, winfo, wcur, wkey, pops>>
    /\ UNCHANGED runvars

\* encrypt_execute_sequential, line 394: the one block of the run
sequential_init ==
    /\ cpc = "seq_init"
    /\ fault.kind # "block"
    /\ heap' = (0 :> NewBlock(0, <<>>))
    /\ index' = 0
    /\ cpc' = "seq_loop"
    /\ UNCHANGED <<key, input, out, slot, cquit, cindex, current, retval,
                   errout, exitstatus, written, batches, stale>>
    /\ UNCHANGED <<quit, lock, process_queue, completion_queue, process_event,
                   completion_event, ctx_threadcount, freed, wpc, winfo, wcur,
                   wkey, pops>>
    /\ UNCHANGED runvars

\* encrypt_execute_sequential, lines 396-412: one iteration
sequential_step ==
    /\ cpc = "seq_loop"
    /\ LET data == fread(input)
           enc == encrypt_block(data, Len(data), key)
       IN  IF Len(data) = 0
           THEN /\ heap' = [heap EXCEPT ![0] = NewBlock(index, data)]
                /\ cpc' = "seq_exit"
                /\ UNCHANGED <<key, input, out, index, written>>
           ELSE /\ heap' = [heap EXCEPT ![0] = NewBlock(index, enc)]
                /\ input' = SubSeq(input, Len(data) + 1, Len(input))
                /\ out' = out \o enc
                /\ written' = Append(written, index)
                /\ key' = encrypt_rotate_key(key, keylength, 1)
                /\ index' = index + 1
                /\ UNCHANGED cpc
    /\ UNCHANGED <<slot, cquit, cindex, current, retval, errout, exitstatus,
                   batches, stale>>
    /\ UNCHANGED <<quit, lock, process_queue, completion_queue, process_event,
                   completion_event, ctx_threadcount, freed, wpc, winfo, wcur,
                   wkey, pops>>
    /\ UNCHANGED runvars

\* encrypt_execute_sequential, lines 414-416
sequential_exit ==
    /\ cpc = "seq_exit"
    /\ freed' = freed \cup {0}
    /\ cpc' = "ret"
    /\ UNCHANGED <<key, input, out, index, slot, cquit, cindex, current,
                   retval, errout, exitstatus, written, batches, stale>>
    /\ UNCHANGED <<quit, lock, process_queue, completion_queue, process_event,
                   completion_event, ctx_threadcount, heap, wpc, winfo, wcur,
                   wkey, pops>>
    /\ UNCHANGED runvars

\* encrypt, lines 438-443: verify() of what the mode's function returned
encrypt_return ==
    /\ cpc = "ret"
    /\ errout' = IF retval # 0 THEN errout + 1 ELSE errout
    /\ cpc' = "exit"
    /\ UNCHANGED <<key, input, out, index, slot, cquit, cindex, current,
                   retval, exitstatus, written, batches, stale>>
    /\ UNCHANGED poolvars /\ UNCHANGED runvars

\* encrypt, lines 445-449, and main, lines 476-478: whatever encrypt()
\* returned, main returns 0
main_return ==
    /\ cpc = "exit"
    /\ exitstatus' = 0
    /\ cpc' = "done"
    /\ UNCHANGED <<key, input, out, index, slot, cquit, cindex, current,
                   retval, errout, written, batches, stale>>
    /\ UNCHANGED poolvars /\ UNCHANGED runvars

encrypt_execute_parallel ==
    \/ context_init
    \/ context_create
    \/ parallel_read
    \/ parallel_post
    \/ parallel_wait
    \/ parallel_drain_begin
    \/ parallel_drain
    \/ parallel_drain_crash
    \/ parallel_drain_stale
    \/ parallel_drain_end
    \/ deinit_quit
    \/ deinit_post
    \/ deinit_join
    \/ deinit_free

encrypt_execute_sequential ==
    \/ sequential_init
    \/ sequential_step
    \/ sequential_exit

Next ==
    \/ encrypt_load
    \/ encrypt_execute_sequential
    \/ encrypt_execute_parallel
    \/ encrypt_return
    \/ main_return
    \/ encrypt_thread

Spec == Init /\ [][Next]_vars

(***************************************************************************)
(* Setup steps that fail.                                                  *)
(***************************************************************************)

\* encrypt, lines 426-434: a verify fails, prints and jumps to exit
encrypt_fail ==
    /\ cpc = "encrypt"
    /\ fault.kind \in KeyFaults
    /\ errout' = errout + 1
    /\ retval' = -1
    /\ cpc' = "exit"
    /\ UNCHANGED <<key, input, out, index, slot, cquit, cindex, current,
                   exitstatus, written, batches, stale>>
    /\ UNCHANGED poolvars /\ UNCHANGED runvars

\* encrypt_context_init, lines 238-243: a verify fails and prints, and so
\* does the verify of line 328, which jumps to encrypt_context_deinit
context_init_fail ==
    /\ cpc = "ctx_init"
    /\ fault.kind \in InitFaults
    /\ errout' = errout + 2
    /\ retval' = -1
    /\ cpc' = "deinit"
    /\ UNCHANGED <<key, input, out, index, slot, cquit, cindex, current,
                   exitstatus, written, batches, stale>>
    /\ UNCHANGED poolvars /\ UNCHANGED runvars

\* encrypt_context_init, line 250: pthread_create fails; context->threadcount
\* is already the requested count (line 245)
context_create_fail ==
    /\ cpc = "create"
    /\ fault.kind = "create"
    /\ fault.at = cindex
    /\ errout' = errout + 2
    /\ retval' = -1
    /\ cpc' = "deinit"
    /\ UNCHANGED <<key, input, out, index, slot, cquit, cindex, current,
                   exitstatus, written, batches, stale>>
    /\ UNCHANGED poolvars /\ UNCHANGED runvars

\* line 334: encrypt_block_init fails in a round; the verify jumps to
\* encrypt_context_deinit past the barrier and the drain
parallel_block_fail ==
    /\ cpc = "read"
    /\ fault.kind = "block"
    /\ fault.at = index
    /\ errout' = errout + 2
    /\ retval' = -1
    /\ cpc' = "deinit"
    /\ UNCHANGED <<key, input, out, index, slot, cquit, cindex, current,
                   exitstatus, written, batches, stale>>
    /\ UNCHANGED poolvars /\ UNCHANGED runvars

\* line 394: encrypt_block_init fails in sequential mode
sequential_block_fail ==
    /\ cpc = "seq_init"
    /\ fault.kind = "block"
    /\ errout' = errout + 2
    /\ retval' = -1
    /\ cpc' = "ret"
    /\ UNCHANGED <<key, input, out, index, slot, cquit, cindex, current,
                   exitstatus, written, batches, stale>>
    /\ UNCHANGED poolvars /\ UNCHANGED runvars

\* encrypt_context_deinit, line 277, on an entry of context->threads that
\* pthread_create never filled: pthread_join of the zeroed pthread_t is
\* undefined.  One outcome: it fails (ESRCH) and the loop goes on.
deinit_join_invalid ==
    /\ cpc = "join"
    /\ cindex < ctx_threadcount
    /\ wpc[cindex + 1] = "none"
    /\ cindex' = cindex + 1
    /\ UNCHANGED <<key, input, out, cpc, index, slot, cquit, current, retval,
                   errout, exitstatus, written, batches, stale>>
    /\ UNCHANGED poolvars /\ UNCHANGED runvars

\* The other outcome: the process is killed dereferencing it.
deinit_join_crash ==
    /\ cpc = "join"
    /\ cindex < ctx_threadcount
    /\ wpc[cindex + 1] = "none"
    /\ cpc' = "crashed"
    /\ exitstatus' = 139
    /\ UNCHANGED <<key, input, out, index, slot, cquit, cindex, current,
                   retval, errout, written, batches, stale>>
    /\ UNCHANGED poolvars /\ UNCHANGED runvars

\* encrypt_context_deinit, lines 280-286, on a completion_queue whose next
\* pointers form a cycle: the loop comes back to a block it has freed, and
\* reading it is undefined.  One outcome: free() aborts the process.
deinit_free_crash ==
    /\ cpc = "free"
    /\ queue_cyclic(heap, completion_queue, {})
    /\ freed' = freed \cup queue_blocks(heap, completion_queue, {})
    /\ cpc' = "crashed"
    /\ exitstatus' = 134
    /\ UNCHANGED <<key, input, out, index, slot, cquit, cindex, current,
                   retval, errout, written, batches, stale>>
    /\ UNCHANGED <<quit, lock, process_queue, completion_queue, process_event,
                   completion_event, ctx_threadcount, heap, wpc, winfo, wcur,
                   wkey, pops>>
    /\ UNCHANGED runvars

\* The other outcome: free() takes the freed blocks again, and the loop goes
\* round the cycle.
deinit_free_stale ==
    /\ cpc = "free"
    /\ queue_cyclic(heap, completion_queue, {})
    /\ stale < MaxStale
    /\ stale' = stale + 1
    /\ freed' = freed \cup queue_blocks(heap, completion_queue, {})
    /\ UNCHANGED <<key, input, out, cpc, index, slot, cquit, cindex, current,
                   retval, errout, exitstatus, written, batches>>
    /\ UNCHANGED <<quit, lock, process_queue, completion_queue, process_event,
                   completion_event, ctx_threadcount, heap, wpc, winfo, wcur,
                   wkey, pops>>
    /\ UNCHANGED runvars

SetupFailure ==
    \/ encrypt_fail
    \/ context_init_fail
    \/ context_create_fail
    \/ parallel_block_fail
    \/ sequential_block_fail
    \/ deinit_join_invalid
    \/ deinit_join_crash
    \/ deinit_free_crash
    \/ deinit_free_stale

\* the faults that a run with n threads on the input in meets
Faults(n, in) ==
    {[kind |-> k, at |-> 0] : k \in KeyFaults}
    \cup {[kind |-> k, at |-> 0] : k \in IF n > 0 THEN InitFaults ELSE {}}
    \cup {[kind |-> "create", at |-> i] : i \in 0..(n - 1)}
    \cup {[kind |-> "block", at |-> i] :
             i \in IF n > 0 THEN 0..Len(in) ELSE {0}}

InitSetup ==
    \E k \in Keys, in \in Inputs, n \in 0..MaxThreads :
        \E f \in Faults(n, in) \cup {NoFault} :
            Boot(k, in, n, f, "encrypt", RotIdle)

NextSetup == Next \/ SetupFailure

\* the program with every setup step free to fail
SpecSetup == InitSetup /\ [][NextSetup]_vars

(***************************************************************************)
(* Fair scheduling: the main thread and every worker that can take a step  *)
(* eventually takes one.                                                   *)
(***************************************************************************)
main_thread ==
    \/ encrypt_load
    \/ encrypt_execute_sequential
    \/ encrypt_execute_parallel
    \/ encrypt_return
    \/ main_return

worker_thread(w) ==
    /\ w \in Workers
    /\ \/ thread_loop(w)
       \/ thread_wait(w)
       \/ thread_checkquit(w)
       \/ thread_pop(w)
       \/ thread_insert(w)
       \/ thread_walk(w)
       \/ thread_post(w)

FairSpec ==
    /\ Spec
    /\ WF_vars(main_thread)
    /\ \A w \in 1..MaxThreads : WF_vars(worker_thread(w))

(***************************************************************************)
(* The program run a second time, with the same key file, on the output    *)
(* of a first run.                                                         *)
(***************************************************************************)
program_rerun ==
    /\ cpc = "done"
    /\ pass = 1
    /\ pass' = 2
    /\ \E n \in 0..MaxThreads :
        /\ threadcount' = n
        /\ wpc' = [w \in 1..n |-> "none"]
        /\ winfo' = [w \in 1..n |-> NULL]
        /\ wcur' = [w \in 1..n |-> NULL]
        /\ wkey' = [w \in 1..n |-> <<>>]
    /\ key' = key0
    /\ input' = out /\ input0' = out
    /\ out' = <<>>
    /\ cpc' = "encrypt"
    /\ index' = 0 /\ slot' = 0 /\ cquit' = FALSE /\ cindex' = 0
    /\ current' = NULL
    /\ retval' = 0 /\ errout' = 0 /\ exitstatus' = NULL
    /\ quit' = FALSE
    /\ lock' = "free"
    /\ process_queue' = NULL /\ completion_queue' = NULL
    /\ process_event' = 0 /\ completion_event' = 0
    /\ ctx_threadcount' = 0
    /\ heap' = [b \in {} |-> NULL]
    /\ freed' = {}
    /\ pops' = [b \in {} |-> 0]
    /\ written' = <<>>
    /\ batches' = <<>>
    /\ stale' = 0
    /\ UNCHANGED <<key0, plain, fault, rot>>

NextTwice == Next \/ program_rerun

SpecTwice == Init /\ [][NextTwice]_vars

(***************************************************************************)
(* The rotation functions on their own: rotate(key, a), rotate of that by  *)
(* b, and rotate(key, (a + b) mod 8L).                                     *)
(***************************************************************************)

\* byte values of the short keys the rotations run on
RotKeyBytes == {0, 1, 165}

\* Keys long enough for pos + shift, or shift / 8, to pass an unsigned char:
\* more than half of UCharMod bytes, and more than UCharMod bytes
LongKeyLens == {129, 200, 257}
LongKey(L) == [i \in 1..L |-> i % UCharMod]

RotInputs ==
    {[key |-> k, a |-> a, b |-> b] :
        k \in SeqsOf(RotKeyBytes, 1, MaxKeyLen),
        a \in 0..MaxShift, b \in 0..MaxShift}
    \cup UNION {{[key |-> LongKey(L), a |-> 8 * B, b |-> b] :
                    B \in {1, L \div 2, L - 1}, b \in {0, 8}} :
                L \in LongKeyLens}

InitRot ==
    \E i \in RotInputs :
        Boot(KeyOf(1), <<>>, 0, NoFault, "rotate",
             [pc |-> "start", key |-> i.key, a |-> i.a, b |-> i.b,
              r1 |-> <<>>, r2 |-> <<>>, r3 |-> <<>>])

rotvars == <<key, key0, input, input0, plain, out, threadcount, cpc, index,
             slot, cquit, cindex, current, retval, errout, exitstatus, quit,
             lock, process_queue, completion_queue, process_event,
             completion_event, ctx_threadcount, heap, freed, wpc, winfo, wcur,
             wkey, pops, written, batches, stale, pass, fault>>

\* encrypt_rotate_key(key, L, a)
rotate_first ==
    /\ rot.pc = "start"
    /\ rot' = [rot EXCEPT !.pc = "first",
                 !.r1 = encrypt_rotate_key(rot.key, Len(rot.key), rot.a)]
    /\ UNCHANGED rotvars

\* encrypt_rotate_key on the result, by b
rotate_second ==
    /\ rot.pc = "first"
    /\ rot' = [rot EXCEPT !.pc = "second",
                 !.r2 = IF rot.r1 = Hang THEN Hang
                        ELSE encrypt_rotate_key(rot.r1, Len(rot.key), rot.b)]
    /\ UNCHANGED rotvars

\* encrypt_rotate_key(key, L, (a + b) mod 8L)
rotate_sum ==
    /\ rot.pc = "second"
    /\ rot' = [rot EXCEPT !.pc = "done",
                 !.r3 = encrypt_rotate_key(rot.key, Len(rot.key),
                           (rot.a + rot.b) % (8 * Len(rot.key)))]
    /\ UNCHANGED rotvars

NextRot == rotate_first \/ rotate_second \/ rotate_sum

SpecRot == InitRot /\ [][NextRot]_vars

(***************************************************************************)
(* What the program is checked against.                                    *)
(***************************************************************************)

\* What encrypt_execute_sequential writes for the key k and the input in:
\* block by block, each XORed with the live key, the key then rotated by 1
RECURSIVE sequential_output(_, _)
sequential_output(k, in) ==
    IF in = <<>> THEN <<>>
    ELSE LET n == Min(Len(k), Len(in))
             data == SubSeq(in, 1, n)
         IN  encrypt_block(data, n, k)
             \o sequential_output(encrypt_rotate_key(k, Len(k), 1),
                                  SubSeq(in, n + 1, Len(in)))

\* bit j of the key's bit string, bit 0 the most significant bit of byte 0
KeyBit(k, j) == (k[(j \div 8) + 1] \div (2 ^ (7 - (j % 8)))) % 2

RECURSIVE ByteOfBits(_, _, _)
ByteOfBits(k, from, n) ==
    IF n = 0 THEN 0
    ELSE (KeyBit(k, from % (8 * Len(k))) * (2 ^ (n - 1)))
         + ByteOfBits(k, from + 1, n - 1)

\* the left rotation of the bit string by s bits: bit j is bit j + s
RotateLeft(k, s) ==
    [i \in 1..Len(k) |-> ByteOfBits(k, (8 * (i - 1)) + s, 8)]

\* the run is over: main returned, or the process was killed
Ended == cpc \in {"done", "crashed"}

\* the blocks appended to process_queue so far
Submitted == DOMAIN pops

\* the barrier of the current round has been passed
BarrierPassed ==
    \/ cpc = "barrier" /\ slot = 0
    \/ cpc \in {"drain", "deinit", "deinit_post", "join", "free", "ret",
                "exit", "done", "crashed"}

\* C1: in parallel mode the bytes written to the output are, at every
\* moment, the first bytes of what the sequential mode writes for the same
\* key and input, and all of them when the run has ended.
C1_ParallelEqualsSequential ==
    threadcount > 0 =>
        /\ IsPrefix(out, sequential_output(key0, input0))
        /\ Ended => out = sequential_output(key0, input0)

\* C2: the block indices the drain loops write are 0, 1, 2, ... in this
\* order, without gap or repeat, and when the run has ended every block that
\* was appended to process_queue has been written.
C2_WrittenInOrder ==
    threadcount > 0 =>
        /\ \A i \in 1..Len(written) : written[i] = i - 1
        /\ Ended => Len(written) = Cardinality(Submitted)

\* C3: every block appended to process_queue is popped at most once, no two
\* workers hold the same block, and when the barrier of a round has been
\* passed every block appended so far has been popped exactly once.
C3_PoppedExactlyOnce ==
    /\ \A b \in Submitted : pops[b] <= 1
    /\ \A w1 \in Workers : \A w2 \in Workers :
          (w1 # w2 /\ winfo[w1] # NULL) => winfo[w1] # winfo[w2]
    /\ BarrierPassed => \A b \in Submitted : pops[b] = 1
    /\ cpc \in {"read", "post"} =>
          \A b \in Submitted : b < index - slot => pops[b] = 1

\* C3's case: a round of at least two blocks, popped by different workers,
\* has passed its barrier
C3_Witness ==
    /\ cpc = "drain"
    /\ Cardinality(Submitted) >= 2
    /\ \A b \in Submitted : pops[b] = 1
    /\ \E w1 \in Workers : \E w2 \in Workers :
          /\ w1 # w2
          /\ winfo[w1] # NULL
          /\ winfo[w2] # NULL

\* C4: a second run, with the same key file and any pool width, on the
\* output of a first run writes the input of the first run.
C4_SelfInverse ==
    pass = 2 =>
        /\ IsPrefix(out, plain)
        /\ Ended => out = plain

\* C5: when the run has ended, as many bytes were written as were read, and
\* in parallel mode every block read was written exactly once.
C5_OutputLength ==
    Ended =>
        /\ Len(out) = Len(input0) - Len(input)
        /\ \A b \in Submitted :
              Cardinality({i \in 1..Len(written) : written[i] = b}) = 1

\* C6: rotate(key, 0) = key, and rotating by a and then by b gives what
\* rotating by (a + b) mod 8L gives.
C6_RotationGroup ==
    /\ (rot.pc \in {"first", "second", "done"} /\ rot.a = 0)
          => rot.r1 = rot.key
    /\ rot.pc = "done" => (rot.r2 # Hang /\ rot.r2 = rot.r3)

\* C7: encrypt_rotate_key(key, L, s) is the key's bit string rotated left by
\* s mod 8L bits; in particular rotate([1, 0], 1) = [2, 0] and
\* rotate([1, 0], 8) = [0, 1].
C7_RotateIsLeftRotation ==
    rot.pc \in {"first", "second", "done"} =>
        /\ rot.r1 = RotateLeft(rot.key, rot.a % (8 * Len(rot.key)))
        /\ (rot.key = <<1, 0>> /\ rot.a = 1) => rot.r1 = <<2, 0>>
        /\ (rot.key = <<1, 0>> /\ rot.a = 8) => rot.r1 = <<0, 1>>

\* a setup step of the run fails
SetupFails == fault.kind \in KeyFaults \cup InitFaults \cup {"create"}

\* C8: a run in which a setup step fails writes a diagnostic, reads no
\* block, writes no output and ends with a non-zero exit status; only a run
\* without failure ends with status 0.
C8_SetupFailureStatus ==
    exitstatus # NULL =>
        /\ SetupFails =>
              /\ errout > 0
              /\ input = input0
              /\ out = <<>>
              /\ Submitted = {}
              /\ exitstatus # 0
        /\ exitstatus = 0 => retval = 0

\* the sizes of the rounds of a run on M whole blocks with N workers
RoundSizes(M, N) ==
    [i \in 1..((M \div N) + 1) |-> IF i <= M \div N THEN N ELSE M % N]

\* C9: on an input of exactly M blocks of L bytes the rounds submitted so far
\* are the first of N, ..., N, M mod N (M div N times N), all of them when
\* the run has ended, and every block submitted has L bytes.
C9_RoundSizes ==
    (threadcount > 0 /\ Len(input0) % keylength = 0) =>
        LET sizes == RoundSizes(Len(input0) \div keylength, threadcount)
        IN  /\ IsPrefix(batches, sizes)
            /\ Ended => batches = sizes
            /\ \A b \in Submitted : heap[b].length = keylength

\* C10: under fair scheduling the run comes to its end: every barrier is
\* eventually passed, every drain loop is eventually left, and the run ends
\* (a run that is killed has ended too: what is asked here is that nothing
\* waits or loops for ever).
C10_Terminates ==
    /\ [](cpc = "barrier" => <>(cpc = "drain"))
    /\ [](cpc = "drain" => <>(cpc # "drain"))
    /\ <>Ended

\* the indices met following next from b, at most fuel of them
RECURSIVE queue_indices(_, _, _)
queue_indices(h, b, fuel) ==
    IF b = NULL \/ fuel = 0 THEN <<>>
    ELSE <<h[b].index>> \o queue_indices(h, h[b].next, fuel - 1)

\* a worker is between its pop and the end of its insertion
Holding(w) == wpc[w] \in {"insert", "rotating", "walk"}

\* the blocks workers have inserted into completion_queue and the drain loop
\* has not taken yet
Inserted ==
    {b \in Submitted :
        /\ pops[b] >= 1
        /\ b \notin freed
        /\ \A w \in Workers : winfo[w] = b => ~Holding(w)}

\* C11: while the coordinator submits or waits at the barrier, following next
\* from the head of completion_queue ends at NULL, visits exactly the blocks
\* inserted so far, and meets their indices in strictly ascending order.
C11_SortedAfterInsert ==
    cpc \in {"read", "post", "barrier"} =>
        /\ ~queue_cyclic(heap, completion_queue, {})
        /\ queue_blocks(heap, completion_queue, {}) = Inserted
        /\ LET s == queue_indices(heap, completion_queue,
                                  Cardinality(DOMAIN heap))
           IN  \A i \in 1..(Len(s) - 1) : s[i] < s[i + 1]

\* the blocks submitted in the round whose barrier the coordinator is at
RoundBlocks ==
    LET k == batches[Len(batches)] IN (index - k)..(index - 1)

\* C12: when the barrier of a round is passed and the drain is about to begin,
\* process_queue is empty, no worker is between sem_wait and its sem_post, and
\* completion_queue holds exactly the blocks submitted in the round.
C12_FullBatchBarrier ==
    (cpc = "barrier" /\ slot = 0) =>
        /\ process_queue = NULL
        /\ \A w \in Workers :
              wpc[w] \notin {"checkquit", "pop", "insert", "rotating",
                             "walk", "post"}
        /\ queue_blocks(heap, completion_queue, {}) = RoundBlocks

\* the blocks submitted with fewer bytes than the key has
ShortBlocks == {b \in Submitted : heap[b].length < keylength}

\* C13 as stated: once a read has returned fewer than L bytes, the
\* coordinator attempts no further read, and end-of-input is marked as soon
\* as that read has been dealt with.
C13_ShortReadStops ==
    (threadcount > 0 /\ ShortBlocks # {}) =>
        /\ cpc # "read"
        /\ cpc # "post" => cquit

\* C13 as the code has it: only a read of 0 bytes marks end-of-input, and
\* after it there is no further read or submission; a read of 1..L-1 bytes is
\* submitted like any other and does not mark end-of-input, and the input
\* being finite it is the last block submitted, with nothing left to read.
C13_EmptyReadStops ==
    threadcount > 0 =>
        /\ cpc = "post" => ~cquit
        /\ cquit => (cpc \notin {"read", "post"} /\ input = <<>>)
        /\ \A b \in ShortBlocks :
              /\ input = <<>>
              /\ \A c \in Submitted : c <= b

\* C13's case: a short block has been submitted and the coordinator is about
\* to read again, end-of-input not marked
C13_Witness ==
    /\ ShortBlocks # {}
    /\ cpc = "read"
    /\ ~cquit

(***************************************************************************)
(* The program on a key file of more than UCharMod bytes and an input of   *)
(* more than ByteBits blocks, so that a worker rotates its key by a whole  *)
(* byte: sequential, or with one worker.                                   *)
(***************************************************************************)
WideKey == [i \in 1..(UCharMod + 1) |-> i % 251]

WideInput == InputOf((ByteBits + 1) * (UCharMod + 1))

InitLong ==
    \E n \in {0, 1} : Boot(WideKey, WideInput, n, NoFault, "encrypt", RotIdle)

\* the steps a run with at most one worker takes: with one block in flight
\* completion_queue never holds two blocks
NextLong ==
    \/ encrypt_load
    \/ sequential_init
    \/ sequential_step
    \/ sequential_exit
    \/ context_init
    \/ context_create
    \/ parallel_read
    \/ parallel_post
    \/ parallel_wait
    \/ parallel_drain_begin
    \/ parallel_drain
    \/ parallel_drain_end
    \/ deinit_quit
    \/ deinit_post
    \/ deinit_join
    \/ deinit_free
    \/ encrypt_return
    \/ main_return
    \/ \E w \in Workers : thread_loop(w)
    \/ \E w \in Workers : thread_wait(w)
    \/ \E w \in Workers : thread_checkquit(w)
    \/ \E w \in Workers : thread_pop(w)
    \/ \E w \in Workers : thread_insert(w)
    \/ \E w \in Workers : thread_post(w)

SpecLong == InitLong /\ [][NextLong]_vars

\* C14: the key XORed into block i is the original key rotated left by i
\* bits: in sequential mode the live key at the start of iteration i, in
\* parallel mode the private key of the worker that has processed block i.
C14_KeyOfBlock ==
    /\ cpc = "seq_loop" =>
          key = RotateLeft(key0, index % (ByteBits * keylength))
    /\ \A w \in Workers :
          wpc[w] \in {"insert", "walk", "post"} =>
              wkey[w] = RotateLeft(key0, heap[winfo[w]].index
                                            % (ByteBits * keylength))

\* C15: for a shift of B whole bytes, 0 < B < L, what encrypt_rotate_key_bytes
\* leaves in the key is key'[i] = key[(i + B) mod L].
C15_ByteRotation ==
    LET L == Len(rot.key)
        B == rot.a \div ByteBits
    IN  (/\ rot.pc \in {"first", "second", "done"}
         /\ rot.a % ByteBits = 0
         /\ 0 < B
         /\ B < L)
        => rot.r1 = [i \in 1..L |-> rot.key[(((i - 1) + B) % L) + 1]]

(***************************************************************************)
(* The run in which encrypt_block_init fails in the middle of a round:     *)
(* one worker more than MaxThreads, MaxInputLen blocks submitted, and the  *)
(* allocation of the next block of the same round fails.                   *)
(***************************************************************************)
InitCancel ==
    Boot(KeyOf(1), InputOf(MaxInputLen), MaxThreads + 1,
         [kind |-> "block", at |-> MaxInputLen], "encrypt", RotIdle)

\* the steps of the main thread in such a run
cancel_main_thread ==
    \/ encrypt_load
    \/ context_init
    \/ context_create
    \/ parallel_read
    \/ parallel_post
    \/ parallel_block_fail
    \/ deinit_quit
    \/ deinit_post
    \/ deinit_join
    \/ deinit_free
    \/ deinit_free_crash
    \/ deinit_free_stale
    \/ encrypt_return
    \/ main_return

NextCancel == cancel_main_thread \/ encrypt_thread

SpecCancel == InitCancel /\ [][NextCancel]_vars

\* fair scheduling of the main thread and of every worker
FairCancel ==
    /\ SpecCancel
    /\ WF_vars(cancel_main_thread)
    /\ \A w \in 1..(MaxThreads + 1) : WF_vars(worker_thread(w))

\* C16: once encrypt_context_deinit has set quit, no worker is in a loop it
\* never leaves (the insertion loop going round a cyclic completion_queue, or
\* a rotation that does not return), every worker that was started
\* eventually exits, and the sem_post and pthread_join loops are eventually
\* left.
C16_ShutdownLiveness ==
    /\ [](quit => \A w \in Workers : wpc[w] \notin {"walk", "rotating"})
    /\ quit ~> (\A w \in Workers : wpc[w] \in {"none", "exited"})
    /\ quit ~> (cpc \notin {"deinit_post", "join"})

\* a worker has a signal of process_event or a block in hand
Busy(w) ==
    wpc[w] \in {"checkquit", "pop", "insert", "rotating", "walk", "post"}

\* C17: whenever the main thread enters encrypt_context_deinit, both queues
\* are empty, no worker has a block in hand, and every block submitted has
\* been written to the output.
C17_NoMidBatchCancel ==
    cpc = "deinit" =>
        /\ process_queue = NULL
        /\ completion_queue = NULL
        /\ \A w \in Workers : ~Busy(w)
        /\ \A b \in Submitted : \E i \in 1..Len(written) : written[i] = b

\* the workers pthread_create has started
Started == {w \in Workers : wpc[w] # "none"}

\* C18: in a run in which the initialisation of the lock or of a semaphore,
\* or a pthread_create, fails, no block is read or submitted, the sem_post
\* and pthread_join loops of encrypt_context_deinit run over exactly the
\* workers that were started, the process is not killed, and once the joins
\* are done every worker that was started has exited.
C18_PoolStartupAbort ==
    fault.kind \in InitFaults \cup {"create"} =>
        /\ input = input0
        /\ Submitted = {}
        /\ cpc \in {"deinit_post", "join"} =>
              ctx_threadcount = Cardinality(Started)
        /\ cpc # "crashed"
        /\ cpc \in {"free", "ret", "exit", "done"} =>
              \A w \in Started : wpc[w] = "exited"

\* C19: in parallel mode the key buffer encrypt() loaded holds the bytes of
\* the key file in every state: no step of the main thread or of a worker
\* writes it.
C19_SharedKeyUnchanged ==
    threadcount > 0 => key = key0

\* C19's case: a worker has rotated its private copy into a key other than
\* the one loaded, and the shared buffer is as it was loaded
C19_Witness ==
    /\ threadcount > 0
    /\ key = key0
    /\ \E w \in Workers :
          /\ wpc[w] \in {"insert", "post"}
          /\ wkey[w] # key0

\* the workers that have taken a signal of process_event and not yet popped
Decremented == {w \in Workers : wpc[w] \in {"checkquit", "pop"}}

\* C20: before shutdown is requested, the count of process_event plus the
\* number of workers that have taken a signal and not yet popped is at most
\* the number of blocks in process_queue; a worker at its pop finds the queue
\* non-empty; and once a barrier is passed both semaphores count 0.
C20_SignalAccounting ==
    /\ ~quit =>
          process_event + Cardinality(Decremented)
              <= Cardinality(queue_blocks(heap, process_queue, {}))
    /\ \A w \in Workers : wpc[w] = "pop" => process_queue # NULL
    /\ ((cpc = "barrier" /\ slot = 0) \/ cpc = "drain") =>
          (process_event = 0 /\ completion_event = 0)

\* C20's case: one signal is pending and a worker that took another is at
\* its pop, two blocks in process_queue
C20_Witness ==
    /\ ~quit
    /\ process_event >= 1
    /\ \E w \in Workers : wpc[w] = "pop"
    /\ Cardinality(queue_blocks(heap, process_queue, {})) >= 2

====
